---- MODULE Spec2Model ----
(***************************************************************************)
(* Visual-regression harness of avenger-vega-renderer:                     *)
(*   test/test_baselines.py  (case matrix, blank guard, tolerance gate)    *)
(*   test/test_example.py    (older single-test harness)                   *)
(* The model follows one pytest session of either harness: the session     *)
(* fixtures page_url and failures_path, the test body statement group by   *)
(* statement group, compare(), spec_to_image() and the pixelmatch call.    *)
(*                                                                         *)
(* Numbers.  score and tolerance are Python floats.  A score is the        *)
(* correctly rounded quotient of two small integers and a tolerance a      *)
(* short decimal literal, so the float comparisons of the code agree with  *)
(* the comparisons of the exact quotients; a number is modelled as the     *)
(* pair <<numerator, denominator>> and compared by cross-multiplication.   *)
(*                                                                         *)
(* Pixels.  A pixel is an opaque grey RGBA value (g, g, g, 255), modelled  *)
(* by g.  An image is a record of width, height and the row-major pixel    *)
(* sequence.                                                               *)
(***************************************************************************)
EXTENDS Integers, Sequences, FiniteSets, TLC

\* Number of entries of the case matrix that the model runs.
NumCases == 2

\* The pixel value the blank guard looks for (255, 255, 255, 255).
White == 255

\* threshold=0.2 of the pixelmatch call, in tenths.
ThresholdTenths == 2

Pixels == {0, 250, White}

Sizes == {<<1, 1>>, <<1, 2>>, <<2, 1>>}

Images ==
  UNION {[width : {s[1]}, height : {s[2]}, px : [1..(s[1] * s[2]) -> Pixels]] : s \in Sizes}

NoImage == [width |-> 0, height |-> 0, px |-> <<>>]

\* ------------------------------------------------------------------ numbers

RatGT(a, b) == a[1] * b[2] > b[1] * a[2]

\* ------------------------------------------------------------------ case matrix

Names == {"stacked_bar", "text_clip"}

\* The tolerance literal written beside each name of the matrix.  The real
\* matrix ranges from 0.0 to 0.05 over images of tens of thousands of pixels;
\* the model's images have one or two pixels, so the non-zero tolerance is 1/2.
ToleranceOf(name) == IF name = "stacked_bar" THEN <<0, 1>> ELSE <<1, 2>>

\* The parametrize list: (category, spec_name, tolerance) triples.  The list in
\* the source repeats two of its entries, each right after its first occurrence,
\* so a name may repeat here as well, next to itself.
Matrices ==
  {[i \in 1..NumCases |->
      [category |-> "rect", spec_name |-> names[i], tolerance |-> ToleranceOf(names[i])]]
     : names \in {f \in [1..NumCases -> Names] :
                    \A i \in 1..(NumCases - 1) :
                      f[i] = "text_clip" => f[i + 1] = "text_clip"}}

\* ------------------------------------------------------------------ blank guard

\* spec_to_image, lines 255-262: TRUE when the scan finds no non-white pixel.
IsBlank(img) ==
  \A k \in 1..(img.width * img.height) : img.px[k] = White

\* ------------------------------------------------------------------ pixelmatch

\* pixelmatch's colour distance of two pixels, times 10000.  For grey opaque
\* pixels the I and Q terms vanish and delta = 0.5053 * (y1 - y2)^2.
ColorDelta(p, q) == 5053 * (p - q) * (p - q)

\* 35215 * threshold^2, times 10000.
MaxDelta == 35215 * ThresholdTenths * ThresholdTenths * 100

\* Length of the flat RGBA buffer pixelmatch works on.
RawLen(img) == img.width * img.height * 4

\* pixelmatch(img1, img2, output, threshold=0.2) of pixelmatch.contrib.PIL:
\* width and height are taken from img1, the three images are flattened, and
\* the core raises ValueError when the flat buffers differ in length; otherwise
\* it counts the positions whose colour distance exceeds the threshold.  No
\* pixel of an image at most two pixels wide or high is classified as
\* anti-aliased, so every such position counts.
Pixelmatch(img1, img2, outsize) ==
  IF RawLen(img1) # RawLen(img2) \/ outsize[1] * outsize[2] * 4 # RawLen(img1)
    THEN [raised |-> TRUE, mismatch |-> 0]
    ELSE [raised |-> FALSE,
          mismatch |-> Cardinality({k \in 1..(img1.width * img1.height) :
                                      ColorDelta(img1.px[k], img2.px[k]) > MaxDelta})]

\* Variant of Score that divides by the width alone.
ScoreByWidth(mismatch, ref) == <<mismatch, ref.width>>

\* score = mismatch / (ref.width * ref.height)
Score(mismatch, ref) == <<mismatch, ref.width * ref.height>>

NoResult == [mismatch |-> 0, score |-> <<0, 1>>, ref |-> <<0, 0>>, cand |-> <<0, 0>>]

\* ------------------------------------------------------------------ state

VARIABLES
  harness,      \* which test module the session runs: "baselines" or "example"
  matrix,       \* the parametrize list of test_image_baselines
  sess,         \* position of the session: fixture setup, cases, teardown
  portTaken,    \* another process has bound the port find_open_port returned
  npm,          \* how the npm install call ended
  server,       \* the webpack-dev-server process p
  termCalls,    \* number of p.terminate() calls
  signalled,    \* what the termination signal was delivered to
  fs,           \* directories written by the harness, by path
  cur,          \* index of the test item pytest is running
  pc,           \* position inside the body of the current test
  page,         \* the browser page of the current test
  pageId,       \* which page that is (0: none)
  leaked,       \* the pages that ended tests left open
  handler,      \* the "pageerror" handler of compare() is registered
  avenger_errs, \* the list avenger_errs of compare() is non-empty
  avenger_img,  \* compare(): image of the candidate backend
  ref_img,      \* compare(): image of the reference backend (svg_img / canvas_img)
  res,          \* comparison_res
  printed,      \* the score line has been printed for the current test
  outcome,      \* pytest's report of each test item
  alt,          \* the same session run with one tolerance literal changed:
                \* which case (0: none), its reports, its file system
  seen          \* history of the current test: what its captures met

vars ==
  <<harness, matrix, sess, portTaken, npm, server, termCalls, signalled, fs, cur, pc, page,
    pageId, leaked, handler, avenger_errs, avenger_img, ref_img, res, printed, outcome, alt, seen>>

sessionVars == <<sess, portTaken, npm, server, termCalls, signalled>>

localVars == <<pc, page, pageId, leaked, handler, avenger_errs, avenger_img, ref_img, res, printed, seen>>

\* ------------------------------------------------------------------ file system

NoMetrics == [required_score |-> <<0, 1>>, score |-> <<0, 1>>, mismatch |-> 0]

\* A path at which no directory exists.
NoDir == [files |-> {}, metrics |-> NoMetrics]

\* here / "failures" / category / spec_name
OutDir(case) == <<case.category, case.spec_name>>

\* The working directory, where test_screenshot saves its three images.
CwdPath == <<".", "">>

Paths == {<<"rect", n>> : n \in Names} \cup {CwdPath}

\* What an earlier session may have left under here / "failures".
StaleDir ==
  [files |-> {"svg.png", "avenger.png", "diff.png", "metrics.json"},
   metrics |-> [required_score |-> <<0, 1>>, score |-> <<1, 1>>, mismatch |-> 1]]

EmptyFs == [p \in Paths |-> NoDir]

\* shutil.rmtree(path, ignore_errors=True); path.mkdir(parents=True, exist_ok=True)
ClearFailures(f) == [p \in Paths |-> IF p = CwdPath THEN f[p] ELSE NoDir]

ArtifactFiles == {"svg.png", "avenger.png", "diff.png", "metrics.json"}

\* Variant of WriteArtifacts that leaves out the metrics document.
WriteArtifactsNoMetrics(f, case, r) ==
  [f EXCEPT ![OutDir(case)] =
     [files |-> {"svg.png", "avenger.png", "diff.png"}, metrics |-> NoMetrics]]

\* Variant of WriteArtifacts that writes the score where the tolerance belongs.
WriteArtifactsSwapped(f, case, r) ==
  [f EXCEPT ![OutDir(case)] =
     [files |-> ArtifactFiles,
      metrics |-> [required_score |-> r.score,
                   score |-> case.tolerance,
                   mismatch |-> r.mismatch]]]

\* lines 192-206: outdir.mkdir and the four files written into it.
WriteArtifacts(f, case, r) ==
  [f EXCEPT ![OutDir(case)] =
     [files |-> ArtifactFiles,
      metrics |-> [required_score |-> case.tolerance,
                   score |-> r.score,
                   mismatch |-> r.mismatch]]]

\* test_example.py lines 54-56
SaveExampleImages(f) ==
  [f EXCEPT ![CwdPath] =
     [files |-> {"img_canvas.png", "img_avenger.png", "img_diff.png"}, metrics |-> NoMetrics]]

\* ------------------------------------------------------------------ initial state

NoSeen == [pageError |-> FALSE, blank |-> FALSE, pixelmatch |-> FALSE, wrote |-> FALSE]

\* test_example.py holds one test; test_baselines.py one test per matrix entry.
NumTests == IF harness = "example" THEN 1 ELSE NumCases

InitRun ==
  /\ harness \in {"baselines", "example"}
  /\ matrix \in Matrices
  /\ sess = "start"
  /\ portTaken = FALSE
  /\ npm = "none"
  /\ server = "none"
  /\ termCalls = 0
  /\ signalled = {}
  /\ fs \in {EmptyFs, [EmptyFs EXCEPT ![<<"rect", "stacked_bar">>] = StaleDir]}
  /\ cur = 1
  /\ pc = "idle"
  /\ page = "none"
  /\ pageId = 0
  /\ leaked = {}
  /\ handler = FALSE
  /\ avenger_errs = FALSE
  /\ avenger_img = NoImage
  /\ ref_img = NoImage
  /\ res = NoResult
  /\ printed = FALSE
  /\ outcome = [i \in 1..NumCases |-> "pending"]
  /\ seen = NoSeen

\* One session.
Init ==
  /\ InitRun
  /\ alt = [k |-> 0, outcome |-> outcome, fs |-> fs]

\* A session together with the same session run from a parametrize list in
\* which the tolerance literal of one entry is changed.
PairInit ==
  /\ InitRun
  /\ \E k \in 1..NumCases : alt = [k |-> k, outcome |-> outcome, fs |-> fs]

\* ------------------------------------------------------------------ session fixtures

\* page_url, line 30: port = find_open_port().  The socket is closed again
\* before the port is returned.
FindOpenPort ==
  /\ sess = "start"
  /\ sess' = "port"
  /\ UNCHANGED <<harness, matrix, portTaken, npm, server, termCalls, signalled, fs, cur, outcome, alt>>
  /\ UNCHANGED localVars

\* Environment: another process binds the port before the dev server does.
OtherProcessBinds ==
  /\ sess \in {"port", "npm"}
  /\ ~portTaken
  /\ portTaken' = TRUE
  /\ UNCHANGED <<harness, matrix, sess, npm, server, termCalls, signalled, fs, cur, outcome, alt>>
  /\ UNCHANGED localVars

\* page_url, line 33: subprocess.call(["pixi", "run", "npm", "install"]).  The
\* return code is dropped; only a missing pixi executable raises (OSError).
NpmInstall ==
  /\ sess = "port"
  /\ \E status \in {"ok", "nonzero", "raised"} :
       /\ npm' = status
       /\ sess' = IF status = "raised" THEN "setup_error" ELSE "npm"
  /\ UNCHANGED <<harness, matrix, portTaken, server, termCalls, signalled, fs, cur, outcome, alt>>
  /\ UNCHANGED localVars

\* page_url, lines 36-38: p = subprocess.Popen([webpack-dev-server, --port, port]).
\* Popen raises when the binary cannot be executed; otherwise the process exists.
LaunchServer ==
  /\ sess = "npm"
  /\ \E started \in BOOLEAN :
       IF started
         THEN sess' = "launched" /\ server' = "starting"
         ELSE sess' = "setup_error" /\ server' = server
  /\ UNCHANGED <<harness, matrix, portTaken, npm, termCalls, signalled, fs, cur, outcome, alt>>
  /\ UNCHANGED localVars

\* Environment: the server process binds its port and starts serving, or exits
\* because the port is in use.
ServerBinds ==
  /\ server = "starting"
  /\ server' = IF portTaken THEN "exited" ELSE "serving"
  /\ UNCHANGED <<harness, matrix, sess, portTaken, npm, termCalls, signalled, fs, cur, outcome, alt>>
  /\ UNCHANGED localVars

\* Environment: the server process dies on its own.  The model lets it die
\* between two tests; what a death in the middle of a test does to the test is
\* among the outcomes of the playwright calls (they return or raise).
ServerCrash ==
  /\ server = "serving"
  /\ sess \in {"launched", "yielded", "ready"}
  /\ pc \in {"idle", "finished"}
  /\ server' = "exited"
  /\ UNCHANGED <<harness, matrix, sess, portTaken, npm, termCalls, signalled, fs, cur, outcome, alt>>
  /\ UNCHANGED localVars

\* page_url, lines 40-41: time.sleep(2); yield the URL.  Nothing looks at the
\* process before the URL is handed out.
Warmup ==
  /\ sess = "launched"
  /\ sess' = "yielded"
  /\ UNCHANGED <<harness, matrix, portTaken, npm, server, termCalls, signalled, fs, cur, outcome, alt>>
  /\ UNCHANGED localVars

\* failures_path, lines 45-50 (test_baselines.py); test_example.py has no
\* such fixture and its test starts right after page_url.
FailuresPath ==
  /\ sess = "yielded"
  /\ sess' = "ready"
  /\ fs' = IF harness = "baselines" THEN ClearFailures(fs) ELSE fs
  /\ alt' = [alt EXCEPT !.fs = IF harness = "baselines" THEN ClearFailures(@) ELSE @]
  /\ UNCHANGED <<harness, matrix, portTaken, npm, server, termCalls, signalled, cur, outcome>>
  /\ UNCHANGED localVars

\* pytest: a session fixture whose setup raised is not set up again; every test
\* that requests it is reported as an error and its body does not run.
CaseSetupError ==
  /\ sess = "setup_error"
  /\ cur <= NumTests
  /\ pc = "idle"
  /\ outcome' = [outcome EXCEPT ![cur] = "error_setup"]
  /\ alt' = [alt EXCEPT !.outcome[cur] = "error_setup"]
  /\ pc' = "finished"
  /\ UNCHANGED <<harness, matrix, fs, cur>>
  /\ UNCHANGED sessionVars
  /\ UNCHANGED <<pageId, leaked>>
  /\ UNCHANGED <<page, handler, avenger_errs, avenger_img, ref_img, res, printed, seen>>

\* Variant of NextCase that goes on only after a test that passed.
NextCaseStopsAfterFailure ==
  /\ pc = "finished"
  /\ cur <= NumTests
  /\ outcome[cur] = "passed"
  /\ cur' = cur + 1
  /\ pc' = "idle"
  /\ page' = "none"
  /\ pageId' = 0
  /\ leaked' = (IF page = "open" THEN leaked \cup {pageId} ELSE leaked)
  /\ handler' = FALSE
  /\ avenger_errs' = FALSE
  /\ avenger_img' = NoImage
  /\ ref_img' = NoImage
  /\ res' = NoResult
  /\ printed' = FALSE
  /\ seen' = NoSeen
  /\ UNCHANGED <<harness, matrix, fs, outcome, alt>>
  /\ UNCHANGED sessionVars

\* pytest: the next test item; the locals of the finished test are gone.
NextCase ==
  /\ pc = "finished"
  /\ cur <= NumTests
  /\ cur' = cur + 1
  /\ pc' = "idle"
  /\ page' = "none"
  /\ pageId' = 0
  /\ leaked' = (IF page = "open" THEN leaked \cup {pageId} ELSE leaked)
  /\ handler' = FALSE
  /\ avenger_errs' = FALSE
  /\ avenger_img' = NoImage
  /\ ref_img' = NoImage
  /\ res' = NoResult
  /\ printed' = FALSE
  /\ seen' = NoSeen
  /\ UNCHANGED <<harness, matrix, fs, outcome, alt>>
  /\ UNCHANGED sessionVars

\* Popen.terminate(), line 42: os.kill(self.pid, SIGTERM) unless the process
\* has already exited.  The signal goes to the one pid.
Terminate(srv) == IF srv \in {"starting", "serving"} THEN {"process"} ELSE {}

\* Variant of Teardown that is reached only when no test raised.
TeardownUnlessRaised ==
  /\ sess = "ready"
  /\ cur > NumTests
  /\ \A i \in 1..NumTests : outcome[i] = "passed"
  /\ sess' = "done"
  /\ termCalls' = termCalls + 1
  /\ signalled' = signalled \cup Terminate(server)
  /\ server' = IF server \in {"starting", "serving"} THEN "terminated" ELSE server
  /\ UNCHANGED <<harness, matrix, portTaken, npm, fs, cur, outcome, alt>>
  /\ UNCHANGED localVars

\* Variant of Teardown that runs after every test, as the teardown of a
\* function-scoped fixture would.
TeardownAfterEachTest ==
  /\ sess = "ready"
  /\ pc = "finished"
  /\ termCalls < NumCases
  /\ termCalls' = termCalls + 1
  /\ signalled' = signalled \cup Terminate(server)
  /\ server' = IF server \in {"starting", "serving"} THEN "terminated" ELSE server
  /\ sess' = IF cur >= NumTests THEN "done" ELSE sess
  /\ UNCHANGED <<harness, matrix, portTaken, npm, fs, cur, outcome, alt>>
  /\ UNCHANGED localVars

\* page_url, line 42, run by pytest after the last test item whatever the
\* outcomes of the tests: p.terminate().
Teardown ==
  /\ sess = "ready"
  /\ cur > NumTests
  /\ sess' = "done"
  /\ termCalls' = termCalls + 1
  /\ signalled' = signalled \cup Terminate(server)
  /\ server' = IF server \in {"starting", "serving"} THEN "terminated" ELSE server
  /\ UNCHANGED <<harness, matrix, portTaken, npm, fs, cur, outcome, alt>>
  /\ UNCHANGED localVars

\* pytest: end of a session whose page_url never reached its yield; a generator
\* that raised has no teardown half.
SessionEndNoTeardown ==
  /\ sess = "setup_error"
  /\ cur > NumTests
  /\ sess' = "done"
  /\ UNCHANGED <<harness, matrix, portTaken, npm, server, termCalls, signalled, fs, cur, outcome, alt>>
  /\ UNCHANGED localVars

\* ------------------------------------------------------------------ test body

Case == matrix[cur]

\* The test raises: pytest reports the item and goes on with the next one.
Raise(kind) ==
  /\ outcome' = [outcome EXCEPT ![cur] = kind]
  /\ alt' = [alt EXCEPT !.outcome[cur] = kind]
  /\ pc' = "finished"

\* Variant of NewPage that hands out a page an earlier test left open, when
\* there is one.
ReusedPage == IF leaked # {} THEN CHOOSE i \in leaked : TRUE ELSE cur

\* test_image_baselines lines 176-179, test_screenshot lines 42-46:
\* chromium.launch(...).new_page() returns a page of a browser this test
\* launched; no earlier test holds it.  Pages are numbered by the test that
\* opened them.
NewPage == cur

\* Variant of OpenPage whose goto never raises.
OpenPageIgnoresServer ==
  /\ sess = "ready"
  /\ cur <= NumTests
  /\ pc = "idle"
  /\ page' = "open"
  /\ pageId' = NewPage
  /\ leaked' = leaked
  /\ pc' = "page"
  /\ UNCHANGED <<harness, matrix, fs, cur, outcome, alt>>
  /\ UNCHANGED sessionVars
  /\ UNCHANGED <<handler, avenger_errs, avenger_img, ref_img, res, printed, seen>>

\* test_image_baselines lines 176-182, test_screenshot lines 42-49: launch the
\* browser, open a page, page.goto(page_url), wait.  goto raises when nothing
\* serves the URL; the page it was called on stays open.
OpenPage ==
  /\ sess = "ready"
  /\ cur <= NumTests
  /\ pc = "idle"
  /\ page' = "open"
  /\ pageId' = NewPage
  /\ leaked' = leaked
  /\ IF server = "serving"
       THEN pc' = "page" /\ outcome' = outcome /\ alt' = alt
       ELSE Raise("error_goto")
  /\ UNCHANGED <<harness, matrix, fs, cur>>
  /\ UNCHANGED sessionVars
  /\ UNCHANGED <<handler, avenger_errs, avenger_img, ref_img, res, printed, seen>>

\* test_image_baselines lines 184-186: json.load of the specification file;
\* test_screenshot line 51: spec1().
LoadSpec ==
  /\ pc = "page"
  /\ pc' = "spec"
  /\ UNCHANGED <<harness, matrix, fs, cur, outcome, alt>>
  /\ UNCHANGED sessionVars
  /\ UNCHANGED <<pageId, leaked>>
  /\ UNCHANGED <<page, handler, avenger_errs, avenger_img, ref_img, res, printed, seen>>

\* compare() up to the first evaluate_handle: test_baselines.py registers the
\* pageerror handler (lines 220-221) and embeds with the avenger renderer
\* (line 246); test_example.py embeds with the canvas renderer and registers
\* nothing.  evaluate_handle raises when the script cannot be evaluated.
EmbedFirst ==
  /\ pc = "spec"
  /\ handler' = (harness = "baselines")
  /\ \E evaluated \in BOOLEAN :
       IF evaluated
         THEN pc' = "first_wait" /\ outcome' = outcome /\ alt' = alt
         ELSE Raise("error_playwright")
  /\ UNCHANGED <<harness, matrix, fs, cur>>
  /\ UNCHANGED sessionVars
  /\ UNCHANGED <<pageId, leaked>>
  /\ UNCHANGED <<page, avenger_errs, avenger_img, ref_img, res, printed, seen>>

\* Environment: the page reports a script error while a capture waits for the
\* render (page.wait_for_timeout, screenshot).  The handler, when there is one,
\* appends it to avenger_errs.
PageError ==
  /\ pc \in {"first_wait", "second_wait"}
  /\ ~seen.pageError
  /\ seen' = [seen EXCEPT !.pageError = TRUE]
  /\ avenger_errs' = (avenger_errs \/ handler)
  /\ UNCHANGED <<harness, matrix, fs, cur, outcome, alt>>
  /\ UNCHANGED sessionVars
  /\ UNCHANGED <<pageId, leaked>>
  /\ UNCHANGED <<pc, page, handler, avenger_img, ref_img, res, printed>>

\* Variant of GuardedImage without the scan.
GuardedImageNoScan(shot) == "return"

\* spec_to_image lines 252-262 of test_baselines.py: the value returned for a
\* decoded screenshot -- the image, or pytest.fail when the scan finds it blank.
GuardedImage(shot) == IF IsBlank(shot) THEN "fail" ELSE "return"

\* spec_to_image line 91 of test_example.py: the screenshot is returned as it is.
UnguardedImage(shot) == "return"

SpecToImage(shot) ==
  IF harness = "baselines" THEN GuardedImage(shot) ELSE UnguardedImage(shot)

\* End of the first spec_to_image call and what compare() does with its result:
\* test_baselines.py lines 247-262 and 222-224, test_example.py lines 91 and 70.
\* The screenshot call raises when the element never shows up.
ScreenshotFirst ==
  /\ pc = "first_wait"
  /\ \/ /\ Raise("error_playwright")
        /\ UNCHANGED <<avenger_img, ref_img, seen>>
     \/ \E shot \in Images :
          /\ seen' = [seen EXCEPT !.blank = IsBlank(shot)]
          /\ IF SpecToImage(shot) = "fail"
               THEN Raise("failed_blank") /\ UNCHANGED <<avenger_img, ref_img>>
               ELSE IF harness = "baselines"
                 THEN IF avenger_errs
                        THEN Raise("failed_pageerror") /\ UNCHANGED <<avenger_img, ref_img>>
                        ELSE /\ avenger_img' = shot
                             /\ pc' = "first"
                             /\ UNCHANGED <<ref_img, outcome, alt>>
                 ELSE /\ ref_img' = shot
                      /\ pc' = "first"
                      /\ UNCHANGED <<avenger_img, outcome, alt>>
  /\ UNCHANGED <<harness, matrix, fs, cur>>
  /\ UNCHANGED sessionVars
  /\ UNCHANGED <<pageId, leaked>>
  /\ UNCHANGED <<page, handler, avenger_errs, res, printed>>

\* Variant of EmbedSecond that goes to the comparison without a second capture.
EmbedSecondSkipsCapture ==
  /\ pc = "first"
  /\ pc' = "second"
  /\ UNCHANGED <<harness, matrix, fs, cur, outcome, alt>>
  /\ UNCHANGED sessionVars
  /\ UNCHANGED <<pageId, leaked>>
  /\ UNCHANGED <<page, handler, avenger_errs, avenger_img, ref_img, res, printed, seen>>

\* Second spec_to_image call up to its evaluate_handle: renderer "svg" in
\* test_baselines.py (line 226), "avenger" in test_example.py (line 71).
EmbedSecond ==
  /\ pc = "first"
  /\ \E evaluated \in BOOLEAN :
       IF evaluated
         THEN pc' = "second_wait" /\ outcome' = outcome /\ alt' = alt
         ELSE Raise("error_playwright")
  /\ UNCHANGED <<harness, matrix, fs, cur>>
  /\ UNCHANGED sessionVars
  /\ UNCHANGED <<pageId, leaked>>
  /\ UNCHANGED <<page, handler, avenger_errs, avenger_img, ref_img, res, printed, seen>>

\* End of the second spec_to_image call.  compare() does not look at
\* avenger_errs again after it.
ScreenshotSecond ==
  /\ pc = "second_wait"
  /\ \/ /\ Raise("error_playwright")
        /\ UNCHANGED <<avenger_img, ref_img, seen>>
     \/ \E shot \in Images :
          /\ seen' = [seen EXCEPT !.blank = seen.blank \/ IsBlank(shot)]
          /\ IF SpecToImage(shot) = "fail"
               THEN Raise("failed_blank") /\ UNCHANGED <<avenger_img, ref_img>>
               ELSE /\ pc' = "second"
                    /\ outcome' = outcome /\ alt' = alt
                    /\ IF harness = "baselines"
                         THEN ref_img' = shot /\ avenger_img' = avenger_img
                         ELSE avenger_img' = shot /\ ref_img' = ref_img
  /\ UNCHANGED <<harness, matrix, fs, cur>>
  /\ UNCHANGED sessionVars
  /\ UNCHANGED <<pageId, leaked>>
  /\ UNCHANGED <<page, handler, avenger_errs, res, printed>>

\* compare() lines 227-236 (test_example.py lines 72-81): the diff image of the
\* reference's size, pixelmatch(reference, avenger, diff), the score.  The
\* images move into the result, of which the model keeps the sizes: nothing
\* reads their pixels again.
Compare ==
  /\ pc = "second"
  /\ seen' = [seen EXCEPT !.pixelmatch = TRUE]
  /\ LET m == Pixelmatch(ref_img, avenger_img, <<ref_img.width, ref_img.height>>)
     IN  IF m.raised
           THEN Raise("error_valueerror") /\ UNCHANGED <<res, avenger_img, ref_img>>
           ELSE /\ res' = [mismatch |-> m.mismatch,
                           score |-> Score(m.mismatch, ref_img),
                           ref |-> <<ref_img.width, ref_img.height>>,
                           cand |-> <<avenger_img.width, avenger_img.height>>]
                /\ avenger_img' = NoImage
                /\ ref_img' = NoImage
                /\ pc' = "compared"
                /\ outcome' = outcome /\ alt' = alt
  /\ UNCHANGED <<harness, matrix, fs, cur>>
  /\ UNCHANGED sessionVars
  /\ UNCHANGED <<pageId, leaked>>
  /\ UNCHANGED <<page, handler, avenger_errs, printed>>

\* Variant of ClosePageAndLog that prints nothing.
ClosePageNoLog ==
  /\ harness = "baselines"
  /\ pc = "compared"
  /\ page' = "closed"
  /\ pc' = "logged"
  /\ UNCHANGED <<harness, matrix, fs, cur, outcome, alt>>
  /\ UNCHANGED sessionVars
  /\ UNCHANGED <<pageId, leaked>>
  /\ UNCHANGED <<handler, avenger_errs, avenger_img, ref_img, res, printed, seen>>

\* test_image_baselines lines 189-190: page.close(); print the score.
ClosePageAndLog ==
  /\ harness = "baselines"
  /\ pc = "compared"
  /\ page' = "closed"
  /\ printed' = TRUE
  /\ pc' = "logged"
  /\ UNCHANGED <<harness, matrix, fs, cur, outcome, alt>>
  /\ UNCHANGED sessionVars
  /\ UNCHANGED <<pageId, leaked>>
  /\ UNCHANGED <<handler, avenger_errs, avenger_img, ref_img, res, seen>>

\* Variant of the condition of line 191 that also rejects the boundary.
ViolatesToleranceAtBoundary(score, tolerance) == score[1] * tolerance[2] >= tolerance[1] * score[2]

\* The condition of line 191.
ViolatesTolerance(score, tolerance) == RatGT(score, tolerance)

\* The other tolerance literal of the model.
AltTolerance(tolerance) == IF tolerance = <<0, 1>> THEN <<1, 2>> ELSE <<0, 1>>

\* The parametrize list with the tolerance literal of entry alt.k changed.
AltMatrix ==
  [i \in 1..NumCases |->
     IF i = alt.k THEN [matrix[i] EXCEPT !.tolerance = AltTolerance(@)] ELSE matrix[i]]

\* test_image_baselines lines 191-207: what pytest reports for the case.
GateOutcome(case, r) ==
  IF ViolatesTolerance(r.score, case.tolerance) THEN "failed_tolerance" ELSE "passed"

\* test_image_baselines lines 191-206: the file system after the gate.
GateFs(f, case, r) ==
  IF ViolatesTolerance(r.score, case.tolerance) THEN WriteArtifacts(f, case, r) ELSE f

\* test_image_baselines lines 191-207: on a violation the artifacts are written
\* and the assertion fails; otherwise the test returns.
Gate ==
  /\ harness = "baselines"
  /\ pc = "logged"
  /\ fs' = GateFs(fs, Case, res)
  /\ seen' = [seen EXCEPT !.wrote = @ \/ ViolatesTolerance(res.score, Case.tolerance)]
  /\ outcome' = [outcome EXCEPT ![cur] = GateOutcome(Case, res)]
  /\ alt' = [alt EXCEPT !.outcome[cur] = GateOutcome(AltMatrix[cur], res),
                        !.fs = GateFs(@, AltMatrix[cur], res)]
  /\ pc' = "finished"
  /\ UNCHANGED <<harness, matrix, cur>>
  /\ UNCHANGED sessionVars
  /\ UNCHANGED <<pageId, leaked>>
  /\ UNCHANGED <<page, handler, avenger_errs, avenger_img, ref_img, res, printed>>

\* test_screenshot lines 54-57: the three images are saved in the working
\* directory and the result is printed; there is no gate.
SaveAndPrint ==
  /\ harness = "example"
  /\ pc = "compared"
  /\ fs' = SaveExampleImages(fs)
  /\ printed' = TRUE
  /\ outcome' = [outcome EXCEPT ![cur] = "passed"]
  /\ alt' = [alt EXCEPT !.outcome[cur] = "passed", !.fs = SaveExampleImages(@)]
  /\ pc' = "finished"
  /\ UNCHANGED <<harness, matrix, cur>>
  /\ UNCHANGED sessionVars
  /\ UNCHANGED <<pageId, leaked>>
  /\ UNCHANGED <<page, handler, avenger_errs, avenger_img, ref_img, res, seen>>

\* ------------------------------------------------------------------ specification

Next ==
  \/ FindOpenPort
  \/ OtherProcessBinds
  \/ NpmInstall
  \/ LaunchServer
  \/ ServerBinds
  \/ ServerCrash
  \/ Warmup
  \/ FailuresPath
  \/ CaseSetupError
  \/ NextCase
  \/ Teardown
  \/ SessionEndNoTeardown
  \/ OpenPage
  \/ LoadSpec
  \/ EmbedFirst
  \/ PageError
  \/ ScreenshotFirst
  \/ EmbedSecond
  \/ ScreenshotSecond
  \/ Compare
  \/ ClosePageAndLog
  \/ Gate
  \/ SaveAndPrint

Spec == Init /\ [][Next]_vars

\* The harness steps, without the environment's: a running pytest process does
\* not stop between two statements, and every playwright call returns or raises
\* within its timeout.
HarnessNext ==
  \/ FindOpenPort
  \/ NpmInstall
  \/ LaunchServer
  \/ Warmup
  \/ FailuresPath
  \/ CaseSetupError
  \/ NextCase
  \/ Teardown
  \/ SessionEndNoTeardown
  \/ OpenPage
  \/ LoadSpec
  \/ EmbedFirst
  \/ ScreenshotFirst
  \/ EmbedSecond
  \/ ScreenshotSecond
  \/ Compare
  \/ ClosePageAndLog
  \/ Gate
  \/ SaveAndPrint

\* Two sessions that differ in one tolerance literal, run side by side.
PairSpec == PairInit /\ [][Next]_vars

FairSpec == Spec /\ WF_vars(HarnessNext)

\* ------------------------------------------------------------------ properties

\* The current test of test_baselines.py has ended.
CaseEnded == harness = "baselines" /\ cur <= NumCases /\ pc = "finished"

\* compare() returned a result for the current test.
HasResult == res.ref # <<0, 0>>

\* Sizes of the two images pixelmatch was called with.
RefSize == IF HasResult THEN res.ref ELSE <<ref_img.width, ref_img.height>>

CandSize == IF HasResult THEN res.cand ELSE <<avenger_img.width, avenger_img.height>>

\* C1: a case of the matrix whose comparison produced a score passes exactly
\* when score <= tolerance, the boundary score = tolerance included, and fails
\* the gate exactly when score > tolerance.
C1_GateInclusive ==
  (CaseEnded /\ HasResult) =>
    /\ (outcome[cur] = "passed") <=>
         (res.score[1] * Case.tolerance[2] <= Case.tolerance[1] * res.score[2])
    /\ (outcome[cur] = "failed_tolerance") <=>
         (res.score[1] * Case.tolerance[2] > Case.tolerance[1] * res.score[2])

\* A case passed with a non-zero score equal to its tolerance.
C1_Witness ==
  /\ CaseEnded /\ HasResult
  /\ outcome[cur] = "passed"
  /\ res.mismatch = 1
  /\ res.score = <<1, 2>>
  /\ Case.tolerance = <<1, 2>>

\* C2: in a session of test_baselines.py, once the fixtures are set up, the
\* only step that changes the failures directory is the step in which a case
\* fails its tolerance gate; that step leaves the case's own directory with the
\* four files and touches no other directory.  A case that passes (or ends in
\* any other way) therefore creates nothing.
C2_ArtifactsOnlyOnViolation ==
  [][(harness = "baselines" /\ sess = "ready") =>
       IF pc # "finished" /\ pc' = "finished" /\ outcome'[cur] = "failed_tolerance"
         THEN /\ fs'[OutDir(Case)].files = ArtifactFiles
              /\ \A p \in Paths \ {OutDir(Case)} : fs'[p] = fs[p]
         ELSE fs' = fs]_vars

\* A case failed its gate in an empty failures directory and left its directory.
C2_Witness ==
  /\ CaseEnded
  /\ outcome[cur] = "failed_tolerance"
  /\ seen.wrote
  /\ fs[OutDir(Case)].files = ArtifactFiles
  /\ \A p \in Paths \ {OutDir(Case)} : fs[p] = NoDir

\* C3: a capture whose screenshot is all white never gets past spec_to_image:
\* the test ends at once in the blank-image failure.
C3_BlankNeverReturned ==
  (cur <= NumTests /\ seen.blank) => (pc = "finished" /\ outcome[cur] = "failed_blank")

\* C4: once the dev-server process exists, p.terminate() is eventually called.
C4_TeardownTerminates == (server # "none") ~> (termCalls > 0)

\* The server was terminated at the end of a session in which a case raised.
C4_Witness ==
  /\ sess = "done"
  /\ termCalls = 1
  /\ \E i \in 1..NumTests :
       outcome[i] \in {"failed_blank", "failed_pageerror", "failed_tolerance", "error_valueerror"}

CaptureFailures == {"failed_blank", "failed_pageerror", "error_playwright"}

\* C5: a case of test_baselines.py one of whose captures failed (a blank
\* screenshot, a collected page error at the check after the candidate
\* capture, or a playwright exception in the capture) has ended, pixelmatch
\* was not called for it, it has no comparison result, and it wrote nothing.
C5_CaptureFailureShortCircuits ==
  (harness = "baselines" /\ cur <= NumCases
     /\ (seen.blank \/ outcome[cur] \in CaptureFailures)) =>
    /\ pc = "finished"
    /\ outcome[cur] \in CaptureFailures
    /\ ~seen.pixelmatch
    /\ ~HasResult
    /\ ~seen.wrote

\* The reference capture of a case came back blank after a good candidate capture.
C5_Witness ==
  /\ CaseEnded
  /\ outcome[cur] = "failed_blank"
  /\ avenger_img # NoImage
  /\ seen.blank

\* C6: after a failed npm install or a failed launch no test body runs and the
\* URL is not handed out.
C6_SetupFailureAborts ==
  (harness = "baselines" /\ (npm \in {"nonzero", "raised"} \/ sess = "setup_error")) =>
    /\ sess \notin {"yielded", "ready"}
    /\ pc \in {"idle", "finished"}
    /\ \A i \in 1..NumCases : outcome[i] \in {"pending", "error_setup"}

\* C7: a case of test_baselines.py during one of whose captures the page
\* reported a script error ends neither passed nor failed on its score.
C7_PageErrorFailsCase ==
  (CaseEnded /\ seen.pageError) => outcome[cur] \notin {"passed", "failed_tolerance"}

\* C8: when the two images handed to pixelmatch differ in width or height, the
\* comparison raises and leaves no result.
C8_DimensionMismatchRaises ==
  (harness = "baselines" /\ cur <= NumCases /\ seen.pixelmatch
     /\ (RefSize[1] # CandSize[1] \/ RefSize[2] # CandSize[2])) =>
    (outcome[cur] = "error_valueerror" /\ ~HasResult)

\* C9: for two images of equal width and height the score is the mismatch
\* count divided by width * height, lies in [0, 1], and is zero exactly when
\* the mismatch count is.
C9_ScoreIsFraction ==
  (HasResult /\ res.ref = res.cand) =>
    /\ res.score[2] > 0
    /\ res.score[1] * (res.cand[1] * res.cand[2]) = res.mismatch * res.score[2]
    /\ 0 <= res.score[1] /\ res.score[1] <= res.score[2]
    /\ (res.score[1] = 0) <=> (res.mismatch = 0)

\* Two images of two pixels each, one of which differs: score 1/2.
C9_Witness ==
  /\ HasResult
  /\ res.ref = res.cand
  /\ res.cand[1] * res.cand[2] = 2
  /\ res.mismatch = 1
  /\ res.score = <<1, 2>>

\* C10: the metrics document a case writes holds its tolerance, its score and
\* the mismatch count of its comparison, and every metrics document under the
\* failures directory has score > required_score.
C10_MetricsRecord ==
  /\ (CaseEnded /\ outcome[cur] = "failed_tolerance") =>
       fs[OutDir(Case)].metrics =
         [required_score |-> Case.tolerance, score |-> res.score, mismatch |-> res.mismatch]
  /\ \A p \in Paths :
       "metrics.json" \in fs[p].files =>
         fs[p].metrics.score[1] * fs[p].metrics.required_score[2]
           > fs[p].metrics.required_score[1] * fs[p].metrics.score[2]

\* One mismatch in two pixels against tolerance 0: required_score 0, score 1/2.
C10_Witness ==
  /\ CaseEnded
  /\ outcome[cur] = "failed_tolerance"
  /\ fs[OutDir(Case)].metrics =
       [required_score |-> <<0, 1>>, score |-> <<1, 2>>, mismatch |-> 1]

\* A test of the current session that raised.
Failures ==
  {"failed_blank", "failed_pageerror", "failed_tolerance",
   "error_goto", "error_playwright", "error_valueerror"}

\* C11: in a session of test_baselines.py whose fixtures are set up, every
\* case of the matrix is eventually run, whatever the earlier cases ended in.
C11_EveryCaseRuns ==
  (harness = "baselines" /\ sess = "ready") ~>
    (\A i \in 1..NumCases : outcome[i] \notin {"pending", "error_setup"})

\* The second case ran and passed after the first case had raised.
C11_Witness ==
  /\ harness = "baselines"
  /\ outcome[1] \in Failures
  /\ outcome[2] = "passed"

\* C13: the server process is created only where none exists and is never
\* created again; it exists once page_url has launched it, so while the body
\* of a test runs, and then terminate() has not been called; terminate() is called at most once,
\* only after the last test has ended, and it has been called when a session
\* that created the process is over.
C13_OneServerOneTeardown ==
  /\ [](/\ termCalls <= 1
        /\ (termCalls = 1 => (cur > NumTests /\ \A i \in 1..NumTests : outcome[i] # "pending"))
        /\ (sess \in {"launched", "yielded", "ready"} => server # "none")
        /\ (pc \notin {"idle", "finished"} => (server # "none" /\ termCalls = 0))
        /\ ((sess = "done" /\ server # "none") => termCalls = 1))
  /\ [][/\ (server # "none" => server' # "none")
        /\ ((server' = "starting" /\ server # "starting") => server = "none")]_vars

\* The session is over, one case failed its gate, another passed, and the
\* one process was terminated once.
C13_Witness ==
  /\ harness = "baselines"
  /\ sess = "done"
  /\ termCalls = 1
  /\ server = "terminated"
  /\ outcome[1] = "failed_tolerance"
  /\ outcome[2] = "passed"

\* The order of the positions of a test body.
PcOrder ==
  \/ pc' = pc
  \/ pc = "idle" /\ pc' = "page"
  \/ pc = "page" /\ pc' = "spec"
  \/ pc = "spec" /\ pc' = "first_wait"
  \/ pc = "first_wait" /\ pc' = "first"
  \/ pc = "first" /\ pc' = "second_wait"
  \/ pc = "second_wait" /\ pc' = "second"
  \/ pc = "second" /\ pc' = "compared"
  \/ pc = "compared" /\ pc' = "logged"
  \/ pc = "logged" /\ pc' = "finished" /\ outcome'[cur] \in {"passed", "failed_tolerance"}
  \/ pc # "logged" /\ pc' = "finished" /\ outcome'[cur] \notin {"passed", "failed_tolerance"}
  \/ pc = "finished" /\ pc' = "idle"

\* Candidate before reference, comparison after both captures, verdict after
\* the comparison.
CaptureOrder ==
  /\ (ref_img # NoImage => avenger_img # NoImage)
  /\ (pc = "first" => avenger_img # NoImage)
  /\ (pc = "second" => (avenger_img # NoImage /\ ref_img # NoImage))
  /\ (seen.pixelmatch => pc \in {"compared", "logged", "finished"})
  /\ (HasResult => seen.pixelmatch)
  /\ (cur <= NumTests /\ outcome[cur] \in {"passed", "failed_tolerance"} => HasResult)

C15_ArtifactsNeverOverwritten ==
  [][(harness = "baselines" /\ sess = "ready") =>
       \A p \in Paths : (fs'[p] # fs[p] => fs[p] = NoDir)]_vars

\* The directories under the failures root are those of the cases that have
\* failed their gate.
OnlyViolators ==
  \A p \in Paths \ {CwdPath} :
    (fs[p] # NoDir) <=>
      (\E i \in 1..NumCases : OutDir(matrix[i]) = p /\ outcome[i] = "failed_tolerance")

\* A step that removes a directory under the failures root.
Clears == \E p \in Paths \ {CwdPath} : fs[p] # NoDir /\ fs'[p] = NoDir

\* The failures_path fixture runs once, before any case.
ClearedOnceAtStart ==
  /\ (Clears => (sess = "yielded" /\ \A i \in 1..NumCases : outcome[i] = "pending"))
  /\ ((sess # "yielded" /\ sess' = "ready") => sess = "ready")
  /\ (sess = "ready" => \A p \in Paths : (fs[p] # NoDir => fs'[p] # NoDir))

\* C16: in every session of test_baselines.py the failures root is cleared
\* once, before any case, then only grows, and at the end of the session holds
\* directories only for this session's violations.
C16_FailuresRoot ==
  /\ []((harness = "baselines" /\ sess = "done") => OnlyViolators)
  /\ [][harness = "baselines" => ClearedOnceAtStart]_vars

\* C18: the URL is not handed to the cases when another process took the port
\* before the dev server could bind it.
C18_BindRaceTolerated == ~(portTaken /\ sess \in {"yielded", "ready"})

C20_ScoreLogged ==
  harness = "baselines" =>
    /\ (pc = "logged" => printed)
    /\ ((cur <= NumCases /\ outcome[cur] \in {"passed", "failed_tolerance"}) => printed)

\* A case failed its gate and its score had been printed.
C20_Witness ==
  /\ CaseEnded
  /\ outcome[cur] = "failed_tolerance"
  /\ printed

\* C17: once the teardown has stopped a running dev server, the termination
\* signal has been delivered to the process and to its process group.
C17_StopSignalsGroup ==
  (sess = "done" /\ server = "terminated") => signalled = {"process", "group"}

\* C12: of two sessions that differ only in the tolerance literal of one case
\* and take the same steps with the same scores, every other case has the
\* same report in both, and the artifacts of every other case that failed its
\* gate are the same in both.
C12_ToleranceCaseLocal ==
  harness = "baselines" =>
    \A i \in 1..NumCases \ {alt.k} :
      /\ outcome[i] = alt.outcome[i]
      /\ (outcome[i] = "failed_tolerance" =>
            fs[OutDir(matrix[i])] = alt.fs[OutDir(matrix[i])])

\* C21: when a case of test_baselines.py has ended by passing, by failing its
\* gate, by a blank capture, by a page error or by the comparison raising, the
\* page it opened has been closed.
C21_PageClosedOnExit ==
  (/\ CaseEnded
   /\ outcome[cur] \in {"passed", "failed_tolerance", "failed_blank",
                        "failed_pageerror", "error_valueerror"})
    => page = "closed"

\* C22: from the moment a case of test_baselines.py has opened its page up to
\* the comparison, the page it works on is the one it opened itself, open and
\* not one an earlier case left behind; that page starts with no page-error
\* handler and no collected errors; the pages left behind are those of
\* earlier cases.
C22_OwnNewPage ==
  (harness = "baselines" /\ cur <= NumCases) =>
    /\ (pc \in {"page", "spec", "first_wait", "first", "second_wait", "second", "compared"} =>
          (pageId = cur /\ pageId \notin leaked /\ page = "open"))
    /\ (pc \in {"page", "spec"} => (~handler /\ ~avenger_errs))
    /\ (\A i \in leaked : i < cur)

\* The second case has taken both captures on its own page while the page of
\* the first case is still open.
C22_Witness ==
  /\ harness = "baselines"
  /\ cur = 2
  /\ pc = "second"
  /\ pageId = 2
  /\ leaked = {1}

====
